---------------------------- MODULE Spec2Model ----------------------------
(***************************************************************************)
(* Model of the lineage-graph component of dbt-docs-modern                 *)
(* (src/src/LineageGraph.svelte): manifest parsing, the type / schema /    *)
(* database filters, the focus traversals and the re-render wiring.        *)
(***************************************************************************)
EXTENDS Integers, Sequences, FiniteSets, TLC

(***************************************************************************)
(* Bounds of the model.                                                    *)
(***************************************************************************)
MaxNodes == 3
MaxEdges == 2
MaxStack == 6

(***************************************************************************)
(* Value universes.  JavaScript's null / undefined are the strings below;  *)
(* no node id, schema or database of the model is spelled like them.       *)
(***************************************************************************)
Null == "null"
Undefined == "undefined"

IdNames == <<"A", "B", "C", "D", "E">>
NodeIds == {IdNames[i] : i \in 1..MaxNodes}
\* An id that is never a key of manifest.nodes.
DanglingId == "Z"

FlagTypes == {"model", "source", "seed", "test", "snapshot"}
ResourceTypes == FlagTypes \cup {"analysis"}

\* Names are listed in the order Array.prototype.sort() puts them.
SchemaNames == <<"raw", "staging">>
DatabaseNames == <<"dev", "prod">>
Schemas == {SchemaNames[i] : i \in 1..Len(SchemaNames)}
Databases == {DatabaseNames[i] : i \in 1..Len(DatabaseNames)}

Range(s) == {s[i] : i \in 1..Len(s)}

\* All sequences over S of length at most n.
SeqsUpTo(S, n) == UNION {[1..k -> S] : k \in 0..n}

\* Sequences over S without repetition (the shape of an allow-list).
DistinctSeqs(S) == {s \in SeqsUpTo(S, Cardinality(S)) : Cardinality(Range(s)) = Len(s)}

(***************************************************************************)
(* A manifest is the ordered list of the entries of manifest.nodes         *)
(* (Object.entries order); entry i has the key IdNames[i].                 *)
(***************************************************************************)
Entry(id, type, schema, database, deps) ==
  [id |-> id, resource_type |-> type, schema |-> schema, database |-> database,
   depends_on |-> deps, name |-> id, description |-> "text", tags |-> <<"nightly">>,
   config |-> [materialized |-> "table"], columns |-> <<>>, absent |-> {}]

\* The entry with columns 1..n, in the order of Object.values(columns).
withColumns(e, n) == [e EXCEPT !.columns = [i \in 1..n |-> i]]

\* The fields of an entry a manifest may leave out.  A missing string is
\* Undefined; a missing list or object is named in the entry's absent set.
OptionalFields ==
  {"name", "schema", "database", "tags", "description", "config", "depends_on"}

lacking(e, F) ==
  [e EXCEPT !.name = IF "name" \in F THEN Undefined ELSE @,
            !.schema = IF "schema" \in F THEN Undefined ELSE @,
            !.database = IF "database" \in F THEN Undefined ELSE @,
            !.description = IF "description" \in F THEN Undefined ELSE @,
            !.depends_on = IF "depends_on" \in F THEN <<>> ELSE @,
            !.absent = F \cap {"tags", "config", "depends_on"}]

ManifestIds(m) == {m[i].id : i \in 1..Len(m)}

\* Number of declared dependency entries of the whole manifest.
RECURSIVE DeclaredFrom(_, _)
DeclaredFrom(m, i) ==
  IF i > Len(m) THEN 0 ELSE Len(m[i].depends_on) + DeclaredFrom(m, i + 1)
Declared(m) == DeclaredFrom(m, 1)

(***************************************************************************)
(* buildGraph, first loop: node records.                                   *)
(***************************************************************************)
\* The value a property access that throws stands for.
TypeError == "TypeError"

\* node.config?.materialized || 'view'
materialization(e) ==
  IF "config" \in e.absent \/ e.config.materialized \in {Undefined, ""}
  THEN "view" ELSE e.config.materialized

\* node.tags || []
tagsOf(e) == IF "tags" \in e.absent THEN <<>> ELSE e.tags

\* node.description || ''
descriptionOf(e) == IF e.description \in {Undefined, ""} THEN "" ELSE e.description

\* node.depends_on?.nodes || []
dependsOnNodes(e) == IF "depends_on" \in e.absent THEN <<>> ELSE e.depends_on

nodeData(e) ==
  [id |-> e.id, name |-> e.name, type |-> e.resource_type,
   materialization |-> materialization(e), schema |-> e.schema, database |-> e.database,
   tags |-> tagsOf(e), description |-> descriptionOf(e)]

parseNodes(m) == [i \in 1..Len(m) |-> nodeData(m[i])]

\* Variant: every dependency id is taken as known.
nodeMapHas_always(m, id) == TRUE

nodeMapHas(m, id) == \E i \in 1..Len(m) : m[i].id = id

\* Array.from(set).sort() of the truthy values of a field.
sortedNames(S, names) ==
  LET Keep(x) == x \in S IN SelectSeq(names, Keep)

schemasOf(m) == sortedNames({m[i].schema : i \in 1..Len(m)} \ {Undefined}, SchemaNames)
databasesOf(m) == sortedNames({m[i].database : i \in 1..Len(m)} \ {Undefined}, DatabaseNames)

(***************************************************************************)
(* buildGraph, second loop: one link per dependency entry whose id is a    *)
(* key of the node map, in entry order then declaration order.             *)
(***************************************************************************)
\* Variant: a dependency declared twice gives one link.
entryLinks_dedup(m, i) ==
  LET deps == dependsOnNodes(m[i])
      kept == {k \in 1..Len(deps) :
                 nodeMapHas(m, deps[k]) /\ \A j \in 1..(k - 1) : deps[j] # deps[k]}
      Keep(d) == nodeMapHas(m, d)
      first == SelectSeq([k \in 1..Len(deps) |-> IF k \in kept THEN deps[k] ELSE DanglingId],
                         Keep)
  IN  [k \in 1..Len(first) |-> [source |-> first[k], target |-> m[i].id]]

entryLinks(m, i) ==
  LET Keep(d) == nodeMapHas(m, d)
      kept == SelectSeq(dependsOnNodes(m[i]), Keep)
  IN  [k \in 1..Len(kept) |-> [source |-> kept[k], target |-> m[i].id]]

RECURSIVE linksFrom(_, _)
linksFrom(m, i) ==
  IF i > Len(m) THEN <<>> ELSE entryLinks(m, i) \o linksFrom(m, i + 1)

parseLinks(m) == linksFrom(m, 1)

(***************************************************************************)
(* buildGraph, filter predicate.  fl is the component's filter state.      *)
(***************************************************************************)
Filters(sm, sso, sse, st, ssn, schemas, databases) ==
  [showModels |-> sm, showSources |-> sso, showSeeds |-> sse, showTests |-> st,
   showSnapshots |-> ssn, selectedSchemas |-> schemas, selectedDatabases |-> databases]

includes(list, x) == x \in Range(list)

\* Variant: seeds follow the sources flag.
typeHidden_seedAsSource(n, fl) ==
  \/ n.type = "model" /\ ~fl.showModels
  \/ n.type = "source" /\ ~fl.showSources
  \/ n.type = "seed" /\ ~fl.showSources
  \/ n.type = "test" /\ ~fl.showTests
  \/ n.type = "snapshot" /\ ~fl.showSnapshots

typeHidden(n, fl) ==
  \/ n.type = "model" /\ ~fl.showModels
  \/ n.type = "source" /\ ~fl.showSources
  \/ n.type = "seed" /\ ~fl.showSeeds
  \/ n.type = "test" /\ ~fl.showTests
  \/ n.type = "snapshot" /\ ~fl.showSnapshots

\* Variant: an empty allow-list allows nothing.
schemaHidden_noLengthCheck(n, fl) == ~includes(fl.selectedSchemas, n.schema)

schemaHidden(n, fl) ==
  Len(fl.selectedSchemas) > 0 /\ ~includes(fl.selectedSchemas, n.schema)

databaseHidden(n, fl) ==
  Len(fl.selectedDatabases) > 0 /\ ~includes(fl.selectedDatabases, n.database)

keepNode(n, fl) == ~typeHidden(n, fl) /\ ~schemaHidden(n, fl) /\ ~databaseHidden(n, fl)

filterNodes(nodes, fl) ==
  LET Keep(n) == keepNode(n, fl) IN SelectSeq(nodes, Keep)

(***************************************************************************)
(* buildGraph, focus traversals.  st holds the two sets the closures       *)
(* share: visited and relevantNodes.                                       *)
(***************************************************************************)
enter(nodeId, st) ==
  [visited |-> st.visited \cup {nodeId}, relevantNodes |-> st.relevantNodes \cup {nodeId}]

RECURSIVE getUpstream(_, _, _), upstreamLinks(_, _, _, _)
getUpstream(nodeId, links, st) ==
  IF nodeId \in st.visited THEN st
  ELSE upstreamLinks(nodeId, links, 1, enter(nodeId, st))
upstreamLinks(nodeId, links, i, st) ==
  IF i > Len(links) THEN st
  ELSE upstreamLinks(nodeId, links, i + 1,
         IF links[i].target = nodeId THEN getUpstream(links[i].source, links, st) ELSE st)

RECURSIVE getDownstream(_, _, _), downstreamLinks(_, _, _, _)
getDownstream(nodeId, links, st) ==
  IF nodeId \in st.visited THEN st
  ELSE downstreamLinks(nodeId, links, 1, enter(nodeId, st))
downstreamLinks(nodeId, links, i, st) ==
  IF i > Len(links) THEN st
  ELSE downstreamLinks(nodeId, links, i + 1,
         IF links[i].source = nodeId THEN getDownstream(links[i].target, links, st) ELSE st)

\* Variant: the upstream traversal follows links in both directions.
relevantNodesOf_undirected(focusModel, links) ==
  LET both == links \o [k \in 1..Len(links) |->
                          [source |-> links[k].target, target |-> links[k].source]]
  IN  getUpstream(focusModel, both, [visited |-> {}, relevantNodes |-> {}]).relevantNodes

\* visited.clear(); getUpstream(focus); visited.clear(); getDownstream(focus)
relevantNodesOf(focusModel, links) ==
  LET up == getUpstream(focusModel, links, [visited |-> {}, relevantNodes |-> {}])
      down == getDownstream(focusModel, links,
                            [visited |-> {}, relevantNodes |-> up.relevantNodes])
  IN  down.relevantNodes

\* Variant: the traversals run over the links between filtered nodes only.
focusNodes_filteredLinks(nodes, focusModel, links) ==
  IF focusModel \in {Null, ""} THEN nodes
  ELSE LET ids == {nodes[i].id : i \in 1..Len(nodes)}
           Among(l) == l.source \in ids /\ l.target \in ids
           relevant == relevantNodesOf(focusModel, SelectSeq(links, Among))
           Keep(n) == n.id \in relevant
       IN  SelectSeq(nodes, Keep)

\* Variant: the focus node itself is not part of its lineage.
focusNodes_withoutFocus(nodes, focusModel, links) ==
  IF focusModel \in {Null, ""} THEN nodes
  ELSE LET relevant == relevantNodesOf(focusModel, links) \ {focusModel}
           Keep(n) == n.id \in relevant
       IN  SelectSeq(nodes, Keep)

focusNodes(nodes, focusModel, links) ==
  IF focusModel \in {Null, ""} THEN nodes
  ELSE LET relevant == relevantNodesOf(focusModel, links)
           Keep(n) == n.id \in relevant
       IN  SelectSeq(nodes, Keep)

(***************************************************************************)
(* buildGraph, link filter and result.                                     *)
(***************************************************************************)
\* Variant: one visible endpoint is enough.
visibleLink_either(l, visibleNodeIds) == l.source \in visibleNodeIds \/ l.target \in visibleNodeIds

visibleLink(l, visibleNodeIds) == l.source \in visibleNodeIds /\ l.target \in visibleNodeIds

filterLinks(links, visibleNodeIds) ==
  LET Keep(l) == visibleLink(l, visibleNodeIds) IN SelectSeq(links, Keep)

\* Variant: the type, schema and database filters never remove the focus node.
buildGraph_focusExempt(m, focusModel, st) ==
  LET links == parseLinks(m)
      all == parseNodes(m)
      kept == filterNodes(all, st)
      Keep(n) == n.id = focusModel \/ \E i \in 1..Len(kept) : kept[i].id = n.id
      filteredNodes == focusNodes(SelectSeq(all, Keep), focusModel, links)
      visibleNodeIds == {filteredNodes[i].id : i \in 1..Len(filteredNodes)}
  IN  [nodes |-> filteredNodes,
       links |-> filterLinks(links, visibleNodeIds),
       allSchemas |-> schemasOf(m),
       allDatabases |-> databasesOf(m)]

\* Variant: the node list is not emptied between calls.
buildGraph_accumulating(m, focusModel, st) ==
  LET links == parseLinks(m)
      filteredNodes == st.graph.nodes \o
                         focusNodes(filterNodes(parseNodes(m), st), focusModel, links)
      visibleNodeIds == {filteredNodes[i].id : i \in 1..Len(filteredNodes)}
  IN  [nodes |-> filteredNodes,
       links |-> filterLinks(links, visibleNodeIds),
       allSchemas |-> schemasOf(m),
       allDatabases |-> databasesOf(m)]

\* st is the module-level state the closure can see.
buildGraph(m, focusModel, st) ==
  LET links == parseLinks(m)
      filteredNodes == focusNodes(filterNodes(parseNodes(m), st), focusModel, links)
      visibleNodeIds == {filteredNodes[i].id : i \in 1..Len(filteredNodes)}
  IN  [nodes |-> filteredNodes,
       links |-> filterLinks(links, visibleNodeIds),
       allSchemas |-> schemasOf(m),
       allDatabases |-> databasesOf(m)]

(***************************************************************************)
(* Component state of LineageGraph.svelte.                                 *)
(***************************************************************************)
VARIABLES
  manifest,           \* prop: the entries of manifest.nodes
  selectedModel,      \* prop: focus id or Null
  showModels, showSources, showSeeds, showTests, showSnapshots,
  selectedSchemas, selectedDatabases,
  allSchemas, allDatabases,
  svgContainer,       \* TRUE once bind:this has set the element
  width,
  graph,              \* what the last renderGraph that got past its guard drew
  rendered,           \* TRUE iff the last handler got past the guard of renderGraph
  event,              \* the handler that ran last
  \* One run of the focus traversals of buildGraph, statement by statement:
  phase,              \* "idle", "up", "down" or "done"
  stack,              \* open calls: the node and the next index of links.forEach
  visited,
  relevantNodes,
  entered,            \* ids that got past the visited test in this traversal, in order
  selectedNode,       \* id of the node the details sidebar shows, or Null
  layout,             \* what renderGraph put on the canvas: labels, positions, simulation
  dropped,            \* history: the node dragged last, where it was put, and whether
                      \* a render has replaced the node objects since (stale)
  app                 \* the state of App.svelte, one field per variable

trav == <<phase, stack, visited, relevantNodes, entered>>

component == <<manifest, selectedModel, showModels, showSources, showSeeds, showTests,
               showSnapshots, selectedSchemas, selectedDatabases, allSchemas,
               allDatabases, svgContainer, width, graph, rendered, event,
               selectedNode, layout, dropped>>

vars == <<manifest, selectedModel, showModels, showSources, showSeeds, showTests,
          showSnapshots, selectedSchemas, selectedDatabases, allSchemas, allDatabases,
          svgContainer, width, graph, rendered, event,
          phase, stack, visited, relevantNodes, entered,
          selectedNode, layout, dropped, app>>

CanvasWidth == 800
Widths == {0, CanvasWidth}

NoGraph == [built |-> FALSE, nodes |-> <<>>, links |-> <<>>]

(***************************************************************************)
(* What renderGraph puts on the canvas.  Nodes are addressed by their      *)
(* index in the node list of the render.  Coordinates are abstracted to    *)
(* the places 0..MaxPos, 0 being where a new simulation puts a node.       *)
(***************************************************************************)
MaxPos == 1
Places == 0..MaxPos
NoPin == -1

\* .text(d => d.name): d3 writes the empty string for null and undefined.
\* Variant: the label is cut to 22 characters through d.name.length.
nameText_truncated(n) == IF n.name = Undefined THEN TypeError ELSE n.name

nameText(n) == IF n.name = Undefined THEN "" ELSE n.name

\* The svg element before the first render.
NoLayout ==
  [placeholder |-> FALSE, label |-> <<>>, x |-> <<>>, fx |-> <<>>, dragging |-> 0,
   simulation |-> "none", alphaTarget |-> 0, transform |-> "identity",
   earlier |-> FALSE, handles |-> "none"]

\* renderGraph removes the elements of the previous render but does not
\* stop its simulation: earlier tells that a simulation created by an
\* earlier render has not cooled down yet.
stillTicking(old) == old.earlier \/ old.simulation = "running"

\* window.graphZoom, window.graphSvg and window.graphG are assigned only on
\* the path that draws nodes; the placeholder path returns before.  "none":
\* never assigned, "current": the group on the canvas, "removed": a group
\* that selectAll('*').remove() took off the canvas.
handlesKept(old) == IF old.handles = "none" THEN "none" ELSE "removed"

\* Variant: node i of the new render takes over the fixed position of node
\* i of the previous one.
drawn_keepPins(nodes, old) ==
  IF Len(nodes) = 0
  THEN [placeholder |-> TRUE, label |-> <<>>, x |-> <<>>, fx |-> <<>>, dragging |-> 0,
        simulation |-> "none", alphaTarget |-> 0, transform |-> old.transform,
        earlier |-> stillTicking(old), handles |-> handlesKept(old)]
  ELSE [placeholder |-> FALSE,
        label |-> [i \in 1..Len(nodes) |-> nameText(nodes[i])],
        x |-> [i \in 1..Len(nodes) |->
                 IF i <= Len(old.fx) /\ old.fx[i] # NoPin THEN old.fx[i] ELSE 0],
        fx |-> [i \in 1..Len(nodes) |-> IF i <= Len(old.fx) THEN old.fx[i] ELSE NoPin],
        dragging |-> 0,
        simulation |-> "running", alphaTarget |-> 0, transform |-> "fit",
        earlier |-> stillTicking(old), handles |-> "current"]

\* Variant: an empty node list is drawn like any other.
drawn_noPlaceholder(nodes, old) ==
  [placeholder |-> FALSE,
   label |-> [i \in 1..Len(nodes) |-> nameText(nodes[i])],
   x |-> [i \in 1..Len(nodes) |-> 0],
   fx |-> [i \in 1..Len(nodes) |-> NoPin],
   dragging |-> 0,
   simulation |-> "running", alphaTarget |-> 0, transform |-> "fit",
   earlier |-> stillTicking(old), handles |-> "current"]

\* renderGraph after buildGraph: the placeholder text for an empty node
\* list; else a new simulation over the new node objects, the node groups
\* with their labels, and the zoom-to-fit transition.
drawn(nodes, old) ==
  IF Len(nodes) = 0
  THEN [placeholder |-> TRUE, label |-> <<>>, x |-> <<>>, fx |-> <<>>, dragging |-> 0,
        simulation |-> "none", alphaTarget |-> 0, transform |-> old.transform,
        earlier |-> stillTicking(old), handles |-> handlesKept(old)]
  ELSE [placeholder |-> FALSE,
        label |-> [i \in 1..Len(nodes) |-> nameText(nodes[i])],
        x |-> [i \in 1..Len(nodes) |-> 0],
        fx |-> [i \in 1..Len(nodes) |-> NoPin],
        dragging |-> 0,
        simulation |-> "running", alphaTarget |-> 0, transform |-> "fit",
        earlier |-> stillTicking(old), handles |-> "current"]

\* n calls of renderGraph in one flush draw the same node list n times.
RECURSIVE drawnTimes(_, _, _)
drawnTimes(n, nodes, old) ==
  IF n = 0 THEN old ELSE drawnTimes(n - 1, nodes, drawn(nodes, old))

\* A label that threw leaves the render unfinished.
raised(lay) == \E i \in 1..Len(lay.label) : lay.label[i] = TypeError

NotDropped == [node |-> Null, place |-> NoPin, stale |-> FALSE]

\* The declared initial values of the filters.
DefaultFilters == Filters(TRUE, TRUE, TRUE, FALSE, TRUE, <<>>, <<>>)

CurrentFilters ==
  Filters(showModels, showSources, showSeeds, showTests, showSnapshots,
          selectedSchemas, selectedDatabases)

\* The module-level variables handlers and renders write, as one record.
State(fl, schemas, databases, g, drew) ==
  [showModels |-> fl.showModels, showSources |-> fl.showSources,
   showSeeds |-> fl.showSeeds, showTests |-> fl.showTests,
   showSnapshots |-> fl.showSnapshots, selectedSchemas |-> fl.selectedSchemas,
   selectedDatabases |-> fl.selectedDatabases,
   allSchemas |-> schemas, allDatabases |-> databases, graph |-> g, rendered |-> drew,
   renders |-> 0]

\* The state a handler starts from.
CurrentState == State(CurrentFilters, allSchemas, allDatabases, graph, FALSE)

SetState(st) ==
  /\ showModels' = st.showModels
  /\ showSources' = st.showSources
  /\ showSeeds' = st.showSeeds
  /\ showTests' = st.showTests
  /\ showSnapshots' = st.showSnapshots
  /\ selectedSchemas' = st.selectedSchemas
  /\ selectedDatabases' = st.selectedDatabases
  /\ allSchemas' = st.allSchemas
  /\ allDatabases' = st.allDatabases
  /\ graph' = st.graph
  /\ rendered' = st.rendered
  /\ layout' = drawnTimes(st.renders, st.graph.nodes, layout)
  /\ dropped' = IF st.rendered /\ dropped.node # Null
                THEN [dropped EXCEPT !.stale = TRUE] ELSE dropped

(***************************************************************************)
(* renderGraph: the part of it that decides what is drawn.                 *)
(***************************************************************************)
renderGraph(svg, w, m, focusModel, st) ==
  IF ~svg \/ w = 0 THEN st
  ELSE LET g == buildGraph(m, focusModel, st)
       IN  [st EXCEPT !.graph = [built |-> TRUE, nodes |-> g.nodes, links |-> g.links],
                      !.allSchemas = g.allSchemas,
                      !.allDatabases = g.allDatabases,
                      !.rendered = TRUE,
                      !.renders = @ + 1]

\* The four reactive statements, run in source order for the invalidated names.
anyTypeShown(st) ==
  st.showModels \/ st.showSources \/ st.showSeeds \/ st.showTests \/ st.showSnapshots

reactiveManifest(dirty, svg) == dirty \cap {"manifest", "svgContainer"} # {} /\ svg

reactiveSelectedModel(dirty, svg, focusModel) ==
  dirty \cap {"selectedModel", "svgContainer"} # {} /\ focusModel # Null /\ svg

reactiveTypes(dirty, svg, st) ==
  /\ dirty \cap {"svgContainer", "showModels", "showSources", "showSeeds", "showTests",
                 "showSnapshots"} # {}
  /\ svg /\ anyTypeShown(st)

reactiveLists(dirty, svg) ==
  dirty \cap {"svgContainer", "selectedSchemas", "selectedDatabases"} # {} /\ svg

\* The statements that run in one flush; the body of each is renderGraph().
reactiveRuns(dirty, svg, focusModel, st) ==
  {k \in 1..4 :
     \/ k = 1 /\ reactiveManifest(dirty, svg)
     \/ k = 2 /\ reactiveSelectedModel(dirty, svg, focusModel)
     \/ k = 3 /\ reactiveTypes(dirty, svg, st)
     \/ k = 4 /\ reactiveLists(dirty, svg)}

\* n calls of renderGraph one after the other.
RECURSIVE renderTimes(_, _, _, _, _, _)
renderTimes(n, svg, w, m, focusModel, st) ==
  IF n = 0 THEN st
  ELSE renderTimes(n - 1, svg, w, m, focusModel, renderGraph(svg, w, m, focusModel, st))

flush(dirty, svg, w, m, focusModel, st) ==
  renderTimes(Cardinality(reactiveRuns(dirty, svg, focusModel, st)), svg, w, m, focusModel, st)

(***************************************************************************)
(* Handlers.                                                               *)
(***************************************************************************)
\* Component creation has run; bind:this sets svgContainer and onMount
\* installs the ResizeObserver.
Mount ==
  /\ ~svgContainer
  /\ svgContainer' = TRUE
  /\ SetState(flush({"svgContainer"}, TRUE, width, manifest, selectedModel, CurrentState))
  /\ event' = "mount"
  /\ UNCHANGED <<manifest, selectedModel, width>>
  /\ UNCHANGED <<trav, selectedNode, app>>

\* ResizeObserver callback.
ResizeObserved(w) ==
  /\ svgContainer
  /\ width' = w
  /\ SetState(renderGraph(svgContainer, w, manifest, selectedModel, CurrentState))
  /\ event' = "resize"
  /\ UNCHANGED <<manifest, selectedModel, svgContainer>>
  /\ UNCHANGED <<trav, selectedNode, app>>

\* on:click of one of the five type buttons.
TypeFlags == {"showModels", "showSources", "showSeeds", "showTests", "showSnapshots"}

toggled(st, name) == [st EXCEPT ![name] = ~st[name]]

ToggleType(name) ==
  /\ svgContainer
  /\ SetState(flush({name}, svgContainer, width, manifest, selectedModel,
                    toggled(CurrentState, name)))
  /\ event' = "toggleType"
  /\ UNCHANGED <<manifest, selectedModel, svgContainer, width>>
  /\ UNCHANGED <<trav, selectedNode, app>>

toggleList(list, x) ==
  IF includes(list, x)
  THEN LET Keep(s) == s # x IN SelectSeq(list, Keep)
  ELSE Append(list, x)

\* The schema buttons exist only while allSchemas has more than one element.
toggleSchema(schema) ==
  /\ svgContainer
  /\ Len(allSchemas) > 1 /\ schema \in Range(allSchemas)
  /\ SetState(flush({"selectedSchemas"}, svgContainer, width, manifest, selectedModel,
                    [CurrentState EXCEPT
                       !.selectedSchemas = toggleList(selectedSchemas, schema)]))
  /\ event' = "toggleSchema"
  /\ UNCHANGED <<manifest, selectedModel, svgContainer, width>>
  /\ UNCHANGED <<trav, selectedNode, app>>

toggleDatabase(db) ==
  /\ svgContainer
  /\ Len(allDatabases) > 1 /\ db \in Range(allDatabases)
  /\ SetState(flush({"selectedDatabases"}, svgContainer, width, manifest, selectedModel,
                    [CurrentState EXCEPT
                       !.selectedDatabases = toggleList(selectedDatabases, db)]))
  /\ event' = "toggleDatabase"
  /\ UNCHANGED <<manifest, selectedModel, svgContainer, width>>
  /\ UNCHANGED <<trav, selectedNode, app>>

\* Variant: Reset turns every type on.
cleared_testsOn(st) ==
  [st EXCEPT !.selectedSchemas = <<>>, !.selectedDatabases = <<>>,
             !.showModels = TRUE, !.showSources = TRUE, !.showSeeds = TRUE,
             !.showTests = TRUE, !.showSnapshots = TRUE]

\* The seven assignments of clearFilters.
cleared(st) ==
  [st EXCEPT !.selectedSchemas = <<>>, !.selectedDatabases = <<>>,
             !.showModels = TRUE, !.showSources = TRUE, !.showSeeds = TRUE,
             !.showTests = FALSE, !.showSnapshots = TRUE]

\* Names clearFilters invalidates: the two arrays always (a fresh array
\* object), a flag only when its value changes.
clearDirty(old, new) ==
  {"selectedSchemas", "selectedDatabases"} \cup {name \in TypeFlags : old[name] # new[name]}

clearFilters ==
  /\ svgContainer
  /\ SetState(flush(clearDirty(CurrentState, cleared(CurrentState)), svgContainer, width,
                    manifest, selectedModel, cleared(CurrentState)))
  /\ event' = "clearFilters"
  /\ UNCHANGED <<manifest, selectedModel, svgContainer, width>>
  /\ UNCHANGED <<trav, selectedNode, app>>

\* The parent passes another selectedModel.
FocusValues == NodeIds \cup {Null}

SetSelectedModel(id) ==
  /\ svgContainer
  /\ id # selectedModel
  /\ selectedModel' = id
  /\ SetState(flush({"selectedModel"}, svgContainer, width, manifest, id, CurrentState))
  /\ event' = "setSelectedModel"
  /\ UNCHANGED <<manifest, svgContainer, width>>
  /\ UNCHANGED <<trav, selectedNode, app>>

(***************************************************************************)
(* Manifests the specifications start from.                                *)
(***************************************************************************)
\* Declaration lists: (declaring entry, dependency id) pairs grouped by
\* declaring entry, at most MaxEdges in total.  The ids range over NodeIds,
\* so a manifest of fewer than MaxNodes entries can name ids it lacks.
DeclLists(n) ==
  {E \in SeqsUpTo((1..n) \X NodeIds, MaxEdges) :
     \A k \in 1..(Len(E) - 1) : E[k][1] <= E[k + 1][1]}

depsOf(E, i) ==
  LET Mine(p) == p[1] = i
      mine == SelectSeq(E, Mine)
  IN  [k \in 1..Len(mine) |-> mine[k][2]]

\* Graph shapes: every declaration list over up to MaxNodes entries, each
\* entry a model or a test; cycles, self-loops, duplicates and dangling ids
\* included.
GraphManifest(n, types, E) ==
  [i \in 1..n |-> Entry(IdNames[i], types[i], "raw", "dev", depsOf(E, i))]

\* Attribute shapes: a chain of up to MaxAttrNodes entries.
MaxAttrNodes == 2

chainDeps(i) == IF i = 1 THEN <<>> ELSE <<IdNames[i - 1]>>

TypeManifest(n, types) ==
  [i \in 1..n |-> Entry(IdNames[i], types[i], "raw", "dev", chainDeps(i))]

ListManifest(n, schemas, databases) ==
  [i \in 1..n |-> Entry(IdNames[i], "model", schemas[i], databases[i], chainDeps(i))]

\* The scenarios of the specification and two mixed ones.
ChainManifest ==
  <<Entry("A", "model", "raw", "dev", <<>>),
    Entry("B", "model", "raw", "dev", <<"A">>),
    Entry("C", "model", "raw", "dev", <<"B">>)>>

TestManifest ==
  <<Entry("A", "model", "raw", "dev", <<>>),
    Entry("B", "test", "raw", "dev", <<"A">>)>>

DanglingManifest ==
  <<Entry("A", "model", "raw", "dev", <<DanglingId>>)>>

SchemaManifest ==
  <<Entry("A", "model", "raw", "dev", <<>>),
    Entry("B", "test", "staging", "dev", <<"A">>),
    Entry("C", "seed", Undefined, Undefined, <<"A", "A">>)>>

DiamondManifest ==
  <<Entry("A", "model", "raw", "dev", <<>>),
    Entry("B", "test", "raw", "dev", <<"A">>),
    Entry("C", "model", "raw", "dev", <<"A">>),
    Entry("D", "model", "raw", "dev", <<"B", "C">>)>>

DatabaseManifest ==
  <<Entry("A", "snapshot", "raw", "dev", <<"B">>),
    Entry("B", "test", "raw", "prod", <<"A", DanglingId>>)>>

ScenarioManifests ==
  {<<>>, ChainManifest, TestManifest, DanglingManifest, SchemaManifest, DatabaseManifest}

\* Manifests for the runs of buildGraph alone.
ShapeManifests == ScenarioManifests \cup {DiamondManifest}

(***************************************************************************)
(* Initial states.                                                         *)
(***************************************************************************)
\* App.svelte before its onMount has run.
AppCreated ==
  [manifest |-> 0, catalog |-> 0, loading |-> TRUE, error |-> FALSE,
   pc |-> "created", attempted |-> <<>>, outcomes |-> <<>>, loaded |-> FALSE,
   recentModels |-> <<>>, showRecents |-> FALSE, thrown |-> FALSE,
   view |-> "overview", selectedNode |-> 0, showLineage |-> FALSE, lineageModel |-> 0,
   breadcrumb |-> <<>>,
   favoriteModels |-> <<>>, uncaught |-> FALSE,
   recentsKey |-> "absent", savedRecents |-> <<>>,
   favoritesKey |-> "absent", savedFavorites |-> <<>>]

\* A canvas nothing has been drawn on.
ViewIdle ==
  /\ selectedNode = Null
  /\ layout = NoLayout
  /\ dropped = NotDropped

TravIdle ==
  /\ phase = "idle"
  /\ stack = <<>>
  /\ visited = {}
  /\ relevantNodes = {}
  /\ entered = <<>>

\* The component right after creation: default filters, not yet mounted.
InitComponent(m, focusModel) ==
  /\ manifest = m
  /\ selectedModel = focusModel
  /\ showModels = DefaultFilters.showModels
  /\ showSources = DefaultFilters.showSources
  /\ showSeeds = DefaultFilters.showSeeds
  /\ showTests = DefaultFilters.showTests
  /\ showSnapshots = DefaultFilters.showSnapshots
  /\ selectedSchemas = DefaultFilters.selectedSchemas
  /\ selectedDatabases = DefaultFilters.selectedDatabases
  /\ allSchemas = <<>>
  /\ allDatabases = <<>>
  /\ svgContainer = FALSE
  /\ width = 0
  /\ graph = NoGraph
  /\ rendered = FALSE
  /\ event = "init"
  /\ TravIdle
  /\ ViewIdle
  /\ app = AppCreated

Init == \E m \in ScenarioManifests, f \in FocusValues : InitComponent(m, f)

\* A mounted component whose canvas has not been measured yet, in a filter
\* state the buttons can produce: the inputs of one buildGraph call.
InitInputs(m, focusModel, fl) ==
  /\ manifest = m
  /\ selectedModel = focusModel
  /\ showModels = fl.showModels
  /\ showSources = fl.showSources
  /\ showSeeds = fl.showSeeds
  /\ showTests = fl.showTests
  /\ showSnapshots = fl.showSnapshots
  /\ selectedSchemas = fl.selectedSchemas
  /\ selectedDatabases = fl.selectedDatabases
  /\ allSchemas = schemasOf(m)
  /\ allDatabases = databasesOf(m)
  /\ svgContainer = TRUE
  /\ width = 0
  /\ graph = NoGraph
  /\ rendered = FALSE
  /\ event = "init"
  /\ TravIdle
  /\ ViewIdle
  /\ app = AppCreated

\* Allow-lists the buttons can produce for a manifest.
listsOf(all) == IF Len(all) > 1 THEN DistinctSeqs(Range(all)) ELSE {<<>>}

InitGraphInputs ==
  \E n \in 0..MaxNodes :
    \E types \in [1..n -> {"model", "test"}], E \in DeclLists(n),
       f \in FocusValues :
      InitInputs(GraphManifest(n, types, E), f, DefaultFilters)

InitTypeInputs ==
  \E n \in 1..MaxAttrNodes :
    \E types \in [1..n -> ResourceTypes],
       sm \in BOOLEAN, sso \in BOOLEAN, sse \in BOOLEAN, st \in BOOLEAN, ssn \in BOOLEAN :
      InitInputs(TypeManifest(n, types), Null, Filters(sm, sso, sse, st, ssn, <<>>, <<>>))

InitListInputs ==
  \E n \in 1..MaxAttrNodes :
    \E schemas \in [1..n -> Schemas \cup {Undefined}],
       databases \in [1..n -> Databases \cup {Undefined}] :
      LET m == ListManifest(n, schemas, databases)
      IN  \E ss \in listsOf(schemasOf(m)), sd \in listsOf(databasesOf(m)), sm \in BOOLEAN :
            InitInputs(m, Null, Filters(sm, TRUE, TRUE, FALSE, TRUE, ss, sd))

InitShapeInputs ==
  \E m \in ShapeManifests, f \in FocusValues \cup {"D", DanglingId}, st \in BOOLEAN :
    InitInputs(m, f, [DefaultFilters EXCEPT !.showTests = st])

\* A chain in which one record lacks a set of optional fields.
OptionalManifest(n, k, F) ==
  [i \in 1..n |->
     IF i = k THEN lacking(Entry(IdNames[i], "model", "raw", "dev", chainDeps(i)), F)
     ELSE Entry(IdNames[i], "model", "raw", "dev", chainDeps(i))]

InitOptionalInputs ==
  \E n \in 1..MaxAttrNodes :
    \E k \in 1..n, F \in SUBSET OptionalFields :
      InitInputs(OptionalManifest(n, k, F), Null, DefaultFilters)

InitBuild ==
  InitGraphInputs \/ InitTypeInputs \/ InitListInputs \/ InitShapeInputs \/ InitOptionalInputs

(***************************************************************************)
(* Specifications.                                                         *)
(***************************************************************************)
Next ==
  \/ Mount
  \/ \E w \in Widths : ResizeObserved(w)
  \/ \E name \in TypeFlags : ToggleType(name)
  \/ \E schema \in Schemas : toggleSchema(schema)
  \/ \E db \in Databases : toggleDatabase(db)
  \/ clearFilters
  \/ \E id \in FocusValues : SetSelectedModel(id)

Spec == Init /\ [][Next]_vars

\* One buildGraph call on drawn inputs: the first ResizeObserver callback.
NextBuild == ResizeObserved(CanvasWidth)

SpecBuild == InitBuild /\ [][NextBuild]_vars

(***************************************************************************)
(* The focus traversals of buildGraph as a machine: each step is one       *)
(* statement of getUpstream / getDownstream.  A frame is an open call,     *)
(* [node, i] with i the index links.forEach looks at next.                 *)
(***************************************************************************)
Frame(nodeId, i) == [node |-> nodeId, i |-> i]

\* Variant: the visited test never fires.
alreadyVisited_never(nodeId, vis) == FALSE

\* if (visited.has(nodeId)) return;
alreadyVisited(nodeId, vis) == nodeId \in vis

\* The id the callback of forEach recurses into for link l, in the direction
\* of the running traversal.
matches(l, nodeId, dir) == IF dir = "up" THEN l.target = nodeId ELSE l.source = nodeId
callee(l, dir) == IF dir = "up" THEN l.source ELSE l.target

travLinks == parseLinks(manifest)
Top == stack[Len(stack)]
Traversing == phase \in {"up", "down"} /\ stack # <<>>
Bump == [stack EXCEPT ![Len(stack)].i = @ + 1]

\* if (focusModel) { ... visited.clear(); getUpstream(focusModel);
TravStartUp ==
  /\ phase = "idle" /\ selectedModel \notin {Null, ""}
  /\ phase' = "up"
  /\ visited' = {selectedModel}
  /\ relevantNodes' = {selectedModel}
  /\ entered' = <<selectedModel>>
  /\ stack' = <<Frame(selectedModel, 1)>>
  /\ UNCHANGED <<component, app>>

\* forEach callback on a link that does not touch the node.
TravSkip ==
  /\ Traversing /\ Top.i <= Len(travLinks)
  /\ ~matches(travLinks[Top.i], Top.node, phase)
  /\ stack' = Bump
  /\ UNCHANGED <<phase, visited, relevantNodes, entered>>
  /\ UNCHANGED <<component, app>>

\* Recursive call that returns at the visited test.
TravRevisit ==
  /\ Traversing /\ Top.i <= Len(travLinks)
  /\ matches(travLinks[Top.i], Top.node, phase)
  /\ alreadyVisited(callee(travLinks[Top.i], phase), visited)
  /\ stack' = Bump
  /\ UNCHANGED <<phase, visited, relevantNodes, entered>>
  /\ UNCHANGED <<component, app>>

\* Recursive call that gets past the visited test.
TravEnter ==
  /\ Traversing /\ Top.i <= Len(travLinks)
  /\ matches(travLinks[Top.i], Top.node, phase)
  /\ LET nodeId == callee(travLinks[Top.i], phase)
     IN  /\ ~alreadyVisited(nodeId, visited)
         /\ Len(stack) < MaxStack
         /\ visited' = visited \cup {nodeId}
         /\ relevantNodes' = relevantNodes \cup {nodeId}
         /\ entered' = Append(entered, nodeId)
         /\ stack' = Append(Bump, Frame(nodeId, 1))
  /\ UNCHANGED phase
  /\ UNCHANGED <<component, app>>

\* forEach is through: the call returns.
TravReturn ==
  /\ Traversing /\ Top.i > Len(travLinks)
  /\ stack' = SubSeq(stack, 1, Len(stack) - 1)
  /\ UNCHANGED <<phase, visited, relevantNodes, entered>>
  /\ UNCHANGED <<component, app>>

\* visited.clear(); getDownstream(focusModel);
TravStartDown ==
  /\ phase = "up" /\ stack = <<>>
  /\ phase' = "down"
  /\ visited' = {selectedModel}
  /\ relevantNodes' = relevantNodes \cup {selectedModel}
  /\ entered' = <<selectedModel>>
  /\ stack' = <<Frame(selectedModel, 1)>>
  /\ UNCHANGED <<component, app>>

TravFinish ==
  /\ phase = "down" /\ stack = <<>>
  /\ phase' = "done"
  /\ UNCHANGED <<stack, visited, relevantNodes, entered>>
  /\ UNCHANGED <<component, app>>

NextTrav ==
  \/ TravStartUp
  \/ TravSkip
  \/ TravRevisit
  \/ TravEnter
  \/ TravReturn
  \/ TravStartDown
  \/ TravFinish

\* Focused buildGraph inputs, at the point where the traversals start.  The
\* traversals read the links and the focus only, so one assignment of
\* resource types and flags per link list is kept.
InitTrav ==
  /\ \/ InitGraphInputs /\ \A i \in 1..Len(manifest) : manifest[i].resource_type = "model"
     \/ InitShapeInputs /\ ~showTests
  /\ selectedModel # Null

\* The traversals are synchronous code: once started they run on.
SpecTrav == InitTrav /\ [][NextTrav]_vars /\ WF_vars(NextTrav)

(***************************************************************************)
(* The canvas in use: the details sidebar, dragging, the simulation's      *)
(* ticks and zooming.  The component sits in a container of fixed width.   *)
(***************************************************************************)
SidebarWidth == 320

\* Content width of svgContainer.parentElement: the sidebar is a flex
\* sibling of fixed width, shown while selectedNode is set.
boxWidth == IF selectedNode = Null THEN CanvasWidth ELSE CanvasWidth - SidebarWidth

NodesDrawn == 1..Len(layout.x)

\* The ResizeObserver reports a size that differs from the last one.
ResizeNotified ==
  /\ boxWidth # width
  /\ ResizeObserved(boxWidth)

\* node.on('click'): the sidebar opens for the node.
NodeClick(i) ==
  /\ svgContainer /\ i \in NodesDrawn
  /\ selectedNode' = graph.nodes[i].id
  /\ event' = "nodeClick"
  /\ UNCHANGED <<manifest, selectedModel, showModels, showSources, showSeeds, showTests,
                 showSnapshots, selectedSchemas, selectedDatabases, allSchemas,
                 allDatabases, svgContainer, width, graph, layout, dropped, trav, app>>
  /\ rendered' = FALSE

\* The close button of the sidebar.
CloseDetails ==
  /\ svgContainer /\ selectedNode # Null
  /\ selectedNode' = Null
  /\ event' = "closeDetails"
  /\ UNCHANGED <<manifest, selectedModel, showModels, showSources, showSeeds, showTests,
                 showSnapshots, selectedSchemas, selectedDatabases, allSchemas,
                 allDatabases, svgContainer, width, graph, layout, dropped, trav, app>>
  /\ rendered' = FALSE

\* A handler that touches the canvas only.
OnCanvas(name) ==
  /\ event' = name
  /\ rendered' = FALSE
  /\ UNCHANGED <<manifest, selectedModel, showModels, showSources, showSeeds, showTests,
                 showSnapshots, selectedSchemas, selectedDatabases, allSchemas,
                 allDatabases, svgContainer, width, graph, selectedNode, trav, app>>

\* alphaTarget is counted in tenths: 3 stands for 0.3.
dragstarted(i) ==
  /\ i \in NodesDrawn /\ layout.dragging = 0
  /\ layout' = [layout EXCEPT !.simulation = "running", !.alphaTarget = 3,
                              !.fx[i] = layout.x[i], !.dragging = i]
  /\ dropped' = dropped
  /\ OnCanvas("dragstarted")

dragged(place) ==
  /\ layout.dragging # 0
  /\ layout' = [layout EXCEPT !.fx[layout.dragging] = place]
  /\ dropped' = [node |-> graph.nodes[layout.dragging].id, place |-> place, stale |-> FALSE]
  /\ OnCanvas("dragged")

\* Variant: the node keeps its fixed position when the gesture ends.
released_keepPin(lay) == [lay EXCEPT !.alphaTarget = 0, !.dragging = 0]

\* dragended: alphaTarget(0); d.fx = null; d.fy = null.
released(lay) ==
  [lay EXCEPT !.alphaTarget = 0, !.fx[lay.dragging] = NoPin, !.dragging = 0]

dragended ==
  /\ layout.dragging # 0
  /\ layout' = released(layout)
  /\ dropped' = dropped
  /\ OnCanvas("dragended")

\* One tick of the simulation: a node with fx is put there, any other node
\* goes where the forces take it.  With alphaTarget 0 the simulation cools
\* down and stops.
Tick ==
  /\ layout.simulation = "running"
  /\ \E x \in [NodesDrawn -> Places] :
       \E sim \in IF layout.alphaTarget = 0 THEN {"running", "stopped"} ELSE {"running"} :
         /\ \A i \in NodesDrawn : layout.fx[i] # NoPin => x[i] = layout.fx[i]
         /\ layout' = [layout EXCEPT !.x = x, !.simulation = sim]
  /\ dropped' = dropped
  /\ OnCanvas("tick")

\* Wheel or pan on the svg.
Zoom ==
  /\ NodesDrawn # {} /\ layout.transform # "user"
  /\ layout' = [layout EXCEPT !.transform = "user"]
  /\ dropped' = dropped
  /\ OnCanvas("zoom")

\* A tick of a simulation that an earlier render created: its handler
\* writes to elements that are no longer on the canvas.  The simulation may
\* cool down and stop.
EarlierTick ==
  /\ layout.earlier
  /\ \E on \in BOOLEAN : layout' = [layout EXCEPT !.earlier = on]
  /\ dropped' = dropped
  /\ OnCanvas("earlierTick")

\* The Re-center button: returns when a handle is missing or the measured
\* box is empty (as that of a group taken off the canvas is), else fits the
\* viewport to the box of window.graphG.
recenterGraph ==
  /\ svgContainer /\ layout.handles # "none"
  /\ layout' = IF layout.handles = "current"
                THEN [layout EXCEPT !.transform = "fit"] ELSE layout
  /\ dropped' = dropped
  /\ OnCanvas("recenter")

\* The sidebar shows at most this many columns.
SidebarColumns == 5

\* Variant: the cut of the graph card (three columns) used for the sidebar.
getNodeColumns_preview(m, id) ==
  IF \A i \in 1..Len(m) : m[i].id # id THEN <<>>
  ELSE LET fullNode == m[CHOOSE i \in 1..Len(m) : m[i].id = id]
       IN  IF "columns" \in fullNode.absent THEN <<>>
           ELSE SubSeq(fullNode.columns, 1,
                       IF Len(fullNode.columns) < 3 THEN Len(fullNode.columns) ELSE 3)

\* getNodeColumns: Object.values(fullNode.columns).slice(0, 5), the empty
\* list when the record or its columns are missing.
getNodeColumns(m, id) ==
  IF \A i \in 1..Len(m) : m[i].id # id THEN <<>>
  ELSE LET fullNode == m[CHOOSE i \in 1..Len(m) : m[i].id = id]
       IN  IF "columns" \in fullNode.absent THEN <<>>
           ELSE SubSeq(fullNode.columns, 1,
                       IF Len(fullNode.columns) < SidebarColumns
                       THEN Len(fullNode.columns) ELSE SidebarColumns)

\* The Columns block of the sidebar: one row per element of
\* getNodeColumns(selectedNode), and the note "+ more columns..." when
\* that list has five elements or more.
sidebarRows == IF selectedNode = Null THEN <<>> ELSE getNodeColumns(manifest, selectedNode)

sidebarMoreNote == selectedNode # Null /\ Len(sidebarRows) >= SidebarColumns

\* The type buttons used on this canvas.
ViewFlags == {"showModels", "showTests"}

NextView ==
  \/ ResizeNotified
  \/ \E name \in ViewFlags : ToggleType(name)
  \/ \E i \in 1..MaxNodes : NodeClick(i)
  \/ CloseDetails
  \/ \E i \in 1..MaxNodes : dragstarted(i)
  \/ \E place \in Places : dragged(place)
  \/ dragended
  \/ Tick
  \/ Zoom
  \/ EarlierTick
  \/ recenterGraph

InitView == InitInputs(TestManifest, Null, DefaultFilters)

\* A model with n columns, and a test whose record has no columns.
MaxColumns == 6

ColumnManifest(n) ==
  <<withColumns(Entry("A", "model", "raw", "dev", <<>>), n),
    [Entry("B", "test", "raw", "dev", <<"A">>) EXCEPT !.absent = {"columns"}]>>

InitSidebar == \E n \in 0..MaxColumns : InitInputs(ColumnManifest(n), Null, DefaultFilters)

NextSidebar ==
  \/ ResizeNotified
  \/ \E name \in ViewFlags : ToggleType(name)
  \/ \E i \in 1..MaxNodes : NodeClick(i)
  \/ CloseDetails
  \/ Zoom
  \/ recenterGraph

SpecSidebar == InitSidebar /\ [][NextSidebar]_vars

SpecView == InitView /\ [][NextView]_vars

(***************************************************************************)
(* App.svelte: loading the two documents, the header's recent-models       *)
(* dropdown, and the overview / detail / lineage views.  A document is     *)
(* named by the number of the candidate it came from, 0 being null; a      *)
(* model is named by a number in Models, 0 being null.                     *)
(***************************************************************************)
NumPaths == 4
MaxModels == 2
MaxRecent == 10
Models == 1..MaxModels

\* What one candidate can answer: fetch rejected, a response that is not
\* ok, a body that is not JSON, or both documents.
Outcomes ==
  {"rejected", "manifestNotOk", "catalogNotOk", "manifestInvalid", "catalogInvalid", "ok"}

\* What localStorage holds under dbt-docs-recents and dbt-docs-favorites
\* when the page is opened: nothing, a list an earlier session wrote, or a
\* string that is not JSON.  The full list holds MaxRecent ids of models the
\* user does not click in this session.
StoredRecents == {"absent", "list", "full", "corrupt"}
StoredFavorites == {"absent", "full", "corrupt"}

FullList == [i \in 1..MaxRecent |-> MaxModels + i]

storedList(kind) ==
  IF kind = "list" THEN <<1>> ELSE IF kind = "full" THEN FullList ELSE <<>>

\* The graph view exists while the modal is on screen; its focus is the
\* model the modal was opened for.
GraphViewShown == app.showLineage /\ app.lineageModel # 0
GraphFocus == app.lineageModel

\* The branch of {#if loading} ... {:else if error} ... {:else} that holds
\* the sidebar, the overview and the detail view.
BodyShown == ~app.loading /\ ~app.error

\* {#if showRecents && recentModels.length > 0}: the block that evaluates
\* manifest.nodes[modelId] for every recent id.
DropdownShown(a) == a.showRecents /\ a.recentModels # <<>>

\* Every LineageGraph variable but the name of the last handler.
graphComponent == <<manifest, selectedModel, showModels, showSources, showSeeds, showTests,
                    showSnapshots, selectedSchemas, selectedDatabases, allSchemas,
                    allDatabases, svgContainer, width, graph, rendered,
                    selectedNode, layout, dropped, trav>>

\* onMount up to the first fetch: the stored preferences are read, then the
\* first candidate is requested.  JSON.parse of a corrupt entry throws into
\* the outer catch; the recents are parsed before the favorites.  The two
\* Key fields tell what the storage held, known from the moment it is read.
AppMount(recents, favorites) ==
  /\ app.pc = "created"
  /\ LET a == [app EXCEPT !.recentsKey = recents, !.savedRecents = storedList(recents),
                          !.favoritesKey = favorites,
                          !.savedFavorites = storedList(favorites)]
         b == [a EXCEPT !.recentModels = storedList(recents)]
     IN  app' = IF recents = "corrupt"
                THEN [a EXCEPT !.pc = "settled", !.error = TRUE, !.loading = FALSE]
                ELSE IF favorites = "corrupt"
                THEN [b EXCEPT !.pc = "settled", !.error = TRUE, !.loading = FALSE]
                ELSE [b EXCEPT !.pc = "fetching",
                               !.favoriteModels = storedList(favorites),
                               !.attempted = <<1>>]
  /\ event' = "onMount"
  /\ UNCHANGED graphComponent

\* Variant: the loop goes on after a candidate has loaded.
answered_noBreak(a, o) ==
  LET i == a.attempted[Len(a.attempted)]
      b == [a EXCEPT !.outcomes = Append(@, o = "ok"),
                     !.manifest = IF o \in {"catalogInvalid", "ok"} THEN i ELSE @,
                     !.catalog = IF o = "ok" THEN i ELSE @,
                     !.loaded = @ \/ o = "ok"]
  IN  IF i < NumPaths THEN [b EXCEPT !.attempted = Append(@, i + 1)]
      ELSE IF b.loaded THEN [b EXCEPT !.pc = "settled", !.loading = FALSE]
      ELSE [b EXCEPT !.pc = "settled", !.error = TRUE, !.loading = FALSE]

\* The rest of one loop iteration once the candidate has answered, and what
\* follows it: the next fetch, or the code after the loop.
answered(a, o) ==
  LET i == a.attempted[Len(a.attempted)]
      b == [a EXCEPT !.outcomes = Append(@, o = "ok"),
                     !.manifest = IF o \in {"catalogInvalid", "ok"} THEN i ELSE @,
                     !.catalog = IF o = "ok" THEN i ELSE @,
                     !.loaded = IF o = "ok" THEN TRUE ELSE @]
  IN  IF o = "ok" THEN [b EXCEPT !.pc = "settled", !.loading = FALSE]
      ELSE IF i < NumPaths THEN [b EXCEPT !.attempted = Append(@, i + 1)]
      ELSE [b EXCEPT !.pc = "settled", !.error = TRUE, !.loading = FALSE]

Answer(o) ==
  /\ app.pc = "fetching"
  /\ app' = answered(app, o)
  /\ event' = "answer"
  /\ UNCHANGED graphComponent

\* The clock button of the header.  Opening the dropdown evaluates
\* manifest.nodes[modelId], which throws while manifest is null.
ToggleRecents ==
  /\ app.pc # "created" /\ ~app.thrown
  /\ LET a == [app EXCEPT !.showRecents = ~@]
     IN  app' = [a EXCEPT !.thrown = DropdownShown(a) /\ a.manifest = 0]
  /\ event' = "toggleRecents"
  /\ UNCHANGED graphComponent

\* Variant: the list is not cut.
addToRecent_uncut(recent, modelId) ==
  LET Other(id) == id # modelId
  IN  <<modelId>> \o SelectSeq(recent, Other)

\* Variant: an id that is already in the list is not taken out of it.
addToRecent_keepOld(recent, modelId) ==
  LET list == <<modelId>> \o recent
  IN  SubSeq(list, 1, IF Len(list) < MaxRecent THEN Len(list) ELSE MaxRecent)

addToRecent(recent, modelId) ==
  LET Other(id) == id # modelId
      list == <<modelId>> \o SelectSeq(recent, Other)
  IN  SubSeq(list, 1, IF Len(list) < MaxRecent THEN Len(list) ELSE MaxRecent)

\* showModelDetail; addToRecent writes the new list to localStorage.
showModelDetail(a, model) ==
  [a EXCEPT !.selectedNode = model, !.view = "detail",
            !.recentModels = addToRecent(@, model),
            !.recentsKey = "list", !.savedRecents = addToRecent(a.recentModels, model),
            !.breadcrumb = <<model>>]

\* Variant: the modal is hidden but its model is kept.
closeLineage_keepModel(a) == [a EXCEPT !.showLineage = FALSE]

closeLineage(a) == [a EXCEPT !.showLineage = FALSE, !.lineageModel = 0]

\* toggleFavorite: the id is taken out if it is in the list, put in front
\* otherwise; the new list is written to localStorage.
toggled_favorite(list, modelId) ==
  IF modelId \in Range(list)
  THEN LET Other(id) == id # modelId IN SelectSeq(list, Other)
  ELSE <<modelId>> \o list

\* The star button of the detail view.
toggleFavorite ==
  /\ ~app.thrown /\ BodyShown /\ app.view = "detail" /\ app.selectedNode # 0
  /\ ~GraphViewShown
  /\ app' = [app EXCEPT !.favoriteModels = toggled_favorite(@, app.selectedNode),
                        !.favoritesKey = "list",
                        !.savedFavorites = toggled_favorite(app.favoriteModels,
                                                            app.selectedNode)]
  /\ event' = "toggleFavorite"
  /\ UNCHANGED graphComponent

\* navigateBreadcrumb(index): -1 is the Home crumb.  For a crumb of a model
\* the breadcrumb is cut and selectModel is called, a name the script does
\* not define: the call raises a ReferenceError, which nothing catches.
\* uncaught tells that an uncaught exception has been reported.
navigateBreadcrumb(index) ==
  /\ ~app.thrown /\ ~GraphViewShown
  /\ app.breadcrumb # <<>> /\ index \in -1..(Len(app.breadcrumb) - 1)
  /\ app' = IF index = -1
            THEN [app EXCEPT !.selectedNode = 0, !.view = "overview", !.breadcrumb = <<>>]
            ELSE [app EXCEPT !.breadcrumb = SubSeq(@, 1, index + 1), !.uncaught = TRUE]
  /\ event' = "navigateBreadcrumb"
  /\ UNCHANGED graphComponent

\* A row of the recent-models dropdown.
RecentClick(model) ==
  /\ ~app.thrown /\ DropdownShown(app) /\ app.manifest # 0
  /\ model \in Range(app.recentModels)
  /\ app' = [showModelDetail(app, model) EXCEPT !.showRecents = FALSE]
  /\ event' = "recentClick"
  /\ UNCHANGED graphComponent

\* A model of the sidebar tree, of the overview list or of the detail
\* view's dependency lists.
ModelClick(model) ==
  /\ ~app.thrown /\ BodyShown
  /\ app' = showModelDetail(app, model)
  /\ event' = "modelClick"
  /\ UNCHANGED graphComponent

\* The back button of the detail view and the Home crumb of the header.
backToOverview ==
  /\ ~app.thrown /\ app.breadcrumb # <<>>
  /\ app' = [app EXCEPT !.selectedNode = 0, !.view = "overview", !.breadcrumb = <<>>]
  /\ event' = "backToOverview"
  /\ UNCHANGED graphComponent

\* The View Lineage button of the detail view.
showLineageGraph ==
  /\ ~app.thrown /\ BodyShown /\ app.view = "detail" /\ app.selectedNode # 0
  /\ ~GraphViewShown
  /\ app' = [app EXCEPT !.lineageModel = app.selectedNode, !.showLineage = TRUE]
  /\ event' = "showLineageGraph"
  /\ UNCHANGED graphComponent

\* The close button and the backdrop of the modal.
CloseLineage ==
  /\ ~app.thrown /\ GraphViewShown
  /\ app' = closeLineage(app)
  /\ event' = "closeLineage"
  /\ UNCHANGED graphComponent

\* The View Full DAG button of the modal.
ViewFullDAG ==
  /\ ~app.thrown /\ GraphViewShown
  /\ app' = [app EXCEPT !.showLineage = FALSE, !.lineageModel = 0]
  /\ event' = "viewFullDAG"
  /\ UNCHANGED graphComponent

\* onModelClick, called by the graph for a node of type model.
GraphModelClick(model) ==
  /\ ~app.thrown /\ GraphViewShown
  /\ app' = closeLineage(showModelDetail(app, model))
  /\ event' = "onModelClick"
  /\ UNCHANGED graphComponent

NextApp ==
  \/ \E recents \in StoredRecents, favorites \in StoredFavorites : AppMount(recents, favorites)
  \/ \E o \in Outcomes : Answer(o)
  \/ ToggleRecents
  \/ \E model \in Models : RecentClick(model)
  \/ \E model \in Models : ModelClick(model)
  \/ backToOverview
  \/ showLineageGraph
  \/ CloseLineage
  \/ ViewFullDAG
  \/ \E model \in Models : GraphModelClick(model)
  \/ toggleFavorite
  \/ \E index \in -1..0 : navigateBreadcrumb(index)

InitApp == InitComponent(<<>>, Null)

\* Every fetch is answered or rejected in the end.
SpecApp == InitApp /\ [][NextApp]_vars /\ WF_vars(\E o \in Outcomes : Answer(o))

(***************************************************************************)
(* Vocabulary of the properties, defined from the manifest itself and not  *)
(* from the operators above.                                               *)
(***************************************************************************)
GraphIds == {graph.nodes[i].id : i \in 1..Len(graph.nodes)}

EntryOf(id) == CHOOSE e \in Range(manifest) : e.id = id

\* Declared dependencies between entries of the manifest, as pairs
\* <<dependency, declaring entry>>.
DepEdges ==
  {p \in ManifestIds(manifest) \X ManifestIds(manifest) :
     \E i \in 1..Len(manifest) :
       manifest[i].id = p[2] /\ p[1] \in Range(manifest[i].depends_on)}

Inverse(R) == {<<p[2], p[1]>> : p \in R}

\* Nodes reachable from the set S along the pairs of R (S included).
RECURSIVE ReachFrom(_, _)
ReachFrom(S, R) ==
  LET next == S \cup {p[2] : p \in {q \in R : q[1] \in S}}
  IN  IF next = S THEN S ELSE ReachFrom(next, R)

Descendants(id) == ReachFrom({id}, DepEdges)
Ancestors(id) == ReachFrom({id}, Inverse(DepEdges))
Lineage(id) == LET R == DepEdges IN ReachFrom({id}, R) \cup ReachFrom({id}, Inverse(R))

Count(seq, x) == Cardinality({k \in 1..Len(seq) : seq[k] = x})

Focused == selectedModel # Null

\* The flag that belongs to a resource type.
FlagOf(type) ==
  CASE type = "model" -> showModels
    [] type = "source" -> showSources
    [] type = "seed" -> showSeeds
    [] type = "test" -> showTests
    [] type = "snapshot" -> showSnapshots
    [] OTHER -> TRUE

TypeShown(e) == FlagOf(e.resource_type)
SchemaAllowed(e) == selectedSchemas = <<>> \/ e.schema \in Range(selectedSchemas)
DatabaseAllowed(e) == selectedDatabases = <<>> \/ e.database \in Range(selectedDatabases)
PassesFilters(e) == TypeShown(e) /\ SchemaAllowed(e) /\ DatabaseAllowed(e)
InLineage(id) == ~Focused \/ id \in Lineage(selectedModel)

HasDangling(e) == \E d \in Range(e.depends_on) : d \notin ManifestIds(manifest)

(***************************************************************************)
(* C1: every edge buildGraph produces has its source id and its target id  *)
(* among the keys of manifest.nodes; a dependency id that is not a key     *)
(* produces no edge, and the entry that declared it is still a node.       *)
(***************************************************************************)
C1_EdgesReferenceNodes ==
  graph.built =>
    /\ LET ids == ManifestIds(manifest)
       IN  \A l \in Range(parseLinks(manifest)) \cup Range(graph.links) :
             l.source \in ids /\ l.target \in ids
    /\ \A e \in Range(manifest) :
         HasDangling(e) =>
           /\ \E k \in 1..Len(manifest) : parseNodes(manifest)[k].id = e.id
           /\ (PassesFilters(e) /\ ~Focused => e.id \in GraphIds)

C1_Witness ==
  /\ graph.built
  /\ \E e \in Range(manifest) :
       /\ HasDangling(e)
       /\ e.id \in GraphIds
       /\ \A l \in Range(graph.links) : l.source # e.id /\ l.target # e.id
  /\ graph.links # <<>>

(***************************************************************************)
(* C2: in focus mode every entry that passes the type, schema and database *)
(* filters and is the focus, an ancestor or a descendant of it over all    *)
(* declared dependencies is visible, also when every path between it and   *)
(* the focus runs through entries the filters removed.                     *)
(***************************************************************************)
C2_LineageComplete ==
  graph.built /\ Focused =>
    LET lineage == Lineage(selectedModel)
        visible == GraphIds
    IN  \A e \in Range(manifest) : PassesFilters(e) /\ e.id \in lineage => e.id \in visible

\* Dependencies between entries that pass the filters.
PassingIds == {e.id : e \in {x \in Range(manifest) : PassesFilters(x)}}
PassingEdges == DepEdges \cap (PassingIds \X PassingIds)

C2_Witness ==
  /\ graph.built /\ Focused
  /\ \E id \in GraphIds :
       /\ id # selectedModel
       /\ id \notin ReachFrom({selectedModel}, PassingEdges)
       /\ id \notin ReachFrom({selectedModel}, Inverse(PassingEdges))

(***************************************************************************)
(* C3: in focus mode every visible node other than the focus is joined to  *)
(* the focus by a directed path of declared dependencies, towards the      *)
(* focus (upstream) or away from it (downstream); siblings are not shown.  *)
(***************************************************************************)
C3_LineageSound ==
  graph.built /\ Focused =>
    LET up == Ancestors(selectedModel)
        down == Descendants(selectedModel)
    IN  \A id \in GraphIds \ {selectedModel} : id \in up \/ id \in down

\* A sibling: shares a parent with the focus without being in its lineage.
C3_Witness ==
  /\ graph.built /\ Focused
  /\ Cardinality(GraphIds) >= 2
  /\ \E e \in Range(manifest) :
       /\ PassesFilters(e)
       /\ e.id \notin GraphIds
       /\ \E p \in GraphIds : <<p, e.id>> \in DepEdges /\ <<p, selectedModel>> \in DepEdges

(***************************************************************************)
(* C4: a parsed edge is visible if and only if its source and its target   *)
(* are both visible nodes; visible nodes and edges are parsed nodes and    *)
(* parsed edges.                                                           *)
(***************************************************************************)
BothVisible(l) == l.source \in GraphIds /\ l.target \in GraphIds

C4_EdgeSurvival ==
  graph.built =>
    LET parsed == parseLinks(manifest)
    IN  /\ \A l \in Range(parsed) :
             Count(graph.links, l) = IF BothVisible(l) THEN Count(parsed, l) ELSE 0
        /\ Range(graph.links) \subseteq Range(parsed)
        /\ Range(graph.nodes) \subseteq Range(parseNodes(manifest))

C4_Witness ==
  /\ graph.built
  /\ graph.links # <<>>
  /\ \E l \in Range(parseLinks(manifest)) : ~BothVisible(l) /\ l.source # l.target

(***************************************************************************)
(* C5: with empty schema and database allow-lists and no focus, a node     *)
(* whose resource type has a flag is retained if and only if that flag is  *)
(* true.                                                                   *)
(***************************************************************************)
C5_TypeFilter ==
  graph.built /\ selectedSchemas = <<>> /\ selectedDatabases = <<>> /\ ~Focused =>
    \A e \in Range(manifest) :
      e.resource_type \in FlagTypes => (e.id \in GraphIds <=> FlagOf(e.resource_type))

C5_Witness ==
  /\ graph.built /\ selectedSchemas = <<>> /\ selectedDatabases = <<>> /\ ~Focused
  /\ \E e \in Range(manifest) : e.resource_type = "seed" /\ e.id \notin GraphIds
  /\ \E e \in Range(manifest) : e.resource_type = "test" /\ e.id \in GraphIds

(***************************************************************************)
(* C6: in the initial filter state and after every Reset the tests flag is *)
(* off and no test node is drawn; right after the tests flag is turned on, *)
(* every test node the schema, database and focus restrictions allow is    *)
(* drawn, with its edges to drawn nodes.  (A canvas of width 0 draws       *)
(* nothing new, so the drawn set is looked at on a measured canvas.)       *)
(***************************************************************************)
InitialFilterState ==
  /\ showModels /\ showSources /\ showSeeds /\ ~showTests /\ showSnapshots
  /\ selectedSchemas = <<>> /\ selectedDatabases = <<>>

NoTestDrawn == \A i \in 1..Len(graph.nodes) : graph.nodes[i].type # "test"

QualifyingTestsDrawn ==
  LET lineage == IF Focused THEN Lineage(selectedModel) ELSE ManifestIds(manifest)
      visible == GraphIds
      parsed == Range(parseLinks(manifest))
  IN  \A e \in Range(manifest) :
        e.resource_type = "test" /\ SchemaAllowed(e) /\ DatabaseAllowed(e) /\ e.id \in lineage
          => /\ e.id \in visible
             /\ \A l \in parsed :
                  (l.source = e.id \/ l.target = e.id) /\ BothVisible(l)
                    => l \in Range(graph.links)

C6_TestsHiddenByDefault ==
  /\ [](event = "init" => ~showTests /\ NoTestDrawn)
  /\ [](InitialFilterState /\ width # 0 => NoTestDrawn)
  /\ [](event = "clearFilters" => ~showTests /\ (width # 0 => graph.built /\ NoTestDrawn))
  /\ [][~showTests /\ showTests' /\ width' # 0 => QualifyingTestsDrawn']_vars

\* Right after the tests flag was turned on: a test node is drawn with an
\* edge, and another test node is kept out by the focus or an allow-list.
C6_Witness ==
  /\ event = "toggleType" /\ showTests /\ rendered
  /\ \E l \in Range(graph.links) : EntryOf(l.target).resource_type = "test"
  /\ selectedSchemas # <<>> \/ selectedDatabases # <<>> \/ Focused

\* Reset on a measured canvas that was showing a test node.
C6_ResetReached ==
  /\ event = "clearFilters" /\ rendered
  /\ \E e \in Range(manifest) : e.resource_type = "test" /\ e.id \notin GraphIds
  /\ GraphIds # {}

(***************************************************************************)
(* C7: an empty schema (database) allow-list removes no node; a non-empty  *)
(* one retains a node only if its schema (database) is in the list.        *)
(***************************************************************************)
C7_AllowLists ==
  graph.built =>
    LET lineage == IF Focused THEN Lineage(selectedModel) ELSE ManifestIds(manifest)
        visible == GraphIds
    IN  /\ selectedSchemas = <<>> =>
             \A e \in Range(manifest) :
               TypeShown(e) /\ DatabaseAllowed(e) /\ e.id \in lineage => e.id \in visible
        /\ selectedSchemas # <<>> =>
             \A id \in visible : EntryOf(id).schema \in Range(selectedSchemas)
        /\ selectedDatabases = <<>> =>
             \A e \in Range(manifest) :
               TypeShown(e) /\ SchemaAllowed(e) /\ e.id \in lineage => e.id \in visible
        /\ selectedDatabases # <<>> =>
             \A id \in visible : EntryOf(id).database \in Range(selectedDatabases)

C7_Witness ==
  /\ graph.built
  /\ selectedSchemas # <<>> /\ selectedDatabases = <<>>
  /\ GraphIds # {}
  /\ \E e \in Range(manifest) : TypeShown(e) /\ e.id \notin GraphIds

(***************************************************************************)
(* C8: when every declared dependency id is a key of manifest.nodes, the   *)
(* parse yields exactly one edge per declared entry, from the dependency   *)
(* to the declaring entry; an id declared twice yields two edges.          *)
(***************************************************************************)
AllDepsExist == \A e \in Range(manifest) : ~HasDangling(e)

C8_OneEdgePerDependency ==
  graph.built /\ AllDepsExist =>
    LET parsed == parseLinks(manifest)
    IN  /\ Len(parsed) = Declared(manifest)
        /\ \A e \in Range(manifest) : \A d \in ManifestIds(manifest) :
             Count(parsed, [source |-> d, target |-> e.id]) = Count(e.depends_on, d)
        /\ (~Focused /\ \A e \in Range(manifest) : PassesFilters(e))
             => Len(graph.links) = Declared(manifest)

C8_Witness ==
  /\ graph.built /\ AllDepsExist /\ ~Focused
  /\ Len(graph.links) = MaxEdges
  /\ \E l \in Range(graph.links) : Count(graph.links, l) = 2

(***************************************************************************)
(* C10: the upstream and the downstream traversal each terminate on every  *)
(* link list, cycles, self-loops, diamonds and duplicate links included,   *)
(* and each gets past the visited test at most once per node.              *)
(***************************************************************************)
C10_TraversalsTerminate ==
  /\ (phase \in {"idle", "up", "down"}) ~> (phase = "done")
  /\ [](\A id \in Range(entered) : Count(entered, id) = 1)
  /\ [](Len(stack) <= Cardinality(ManifestIds(manifest)) + 1)

\* The machine and the operators of buildGraph compute the same set.
TravAgreesWithBuildGraph ==
  phase = "done" => relevantNodes = relevantNodesOf(selectedModel, parseLinks(manifest))

\* A finished run on a cycle through the focus that has a second way round.
C10_Witness ==
  /\ phase = "done"
  /\ Cardinality(relevantNodes) >= 2
  /\ \E p \in DepEdges : p[1] # p[2] /\ p[2] = selectedModel /\ p[1] \in Descendants(selectedModel)

\* A finished run on a diamond: the far corner is reached along two paths.
C10_DiamondReached ==
  /\ phase = "done"
  /\ \E a, b \in relevantNodes \ {selectedModel} :
       /\ a # b
       /\ {<<selectedModel, a>>, <<selectedModel, b>>} \subseteq DepEdges
       /\ \E c \in relevantNodes \ {selectedModel, a, b} :
            {<<a, c>>, <<b, c>>} \subseteq DepEdges

(***************************************************************************)
(* C9: what buildGraph returns is a function of the manifest, the filter   *)
(* specification and the focus id alone: the graph of every render equals  *)
(* the one built from the same inputs in a component that has built        *)
(* nothing before, and a render repeated at once returns the same graph.   *)
(***************************************************************************)
FreshState == State(CurrentFilters, <<>>, <<>>, NoGraph, FALSE)

C9_BuildGraphDependsOnInputsOnly ==
  /\ [](rendered =>
          LET fresh == buildGraph(manifest, selectedModel, FreshState)
          IN  graph.nodes = fresh.nodes /\ graph.links = fresh.links)
  /\ [][rendered /\ event' = "resize" /\ width' # 0 => graph' = graph]_vars

\* A toggle brought the filters back to their initial values, on a canvas
\* that shows a focused lineage.
C9_Witness ==
  /\ rendered /\ event = "toggleType" /\ InitialFilterState /\ Focused
  /\ Len(graph.nodes) >= 2 /\ graph.links # <<>>

(***************************************************************************)
(* C11: on a mounted graph of non-zero width, after every type toggle,     *)
(* schema or database toggle, Reset and focus change has been processed,   *)
(* the drawn nodes and edges are those buildGraph returns for the current  *)
(* manifest, filters and focus; this includes turning the last enabled     *)
(* type off and clearing the focus.                                        *)
(***************************************************************************)
C11_RenderedMatchesInputs ==
  svgContainer /\ width # 0 =>
    LET fresh == buildGraph(manifest, selectedModel, FreshState)
    IN  graph.built /\ graph.nodes = fresh.nodes /\ graph.links = fresh.links

\* Every type flag is off and the canvas still shows nodes.
C11_LastTypeOffStale ==
  /\ svgContainer /\ width # 0 /\ event = "toggleType"
  /\ ~(showModels \/ showSources \/ showSeeds \/ showTests \/ showSnapshots)
  /\ graph.nodes # <<>>

(***************************************************************************)
(* C12: at startup the candidates are requested in list order; a candidate *)
(* is requested only after every earlier one has failed; none is requested *)
(* after one has loaded; and on success manifest and catalog both come     *)
(* from the candidate that loaded.                                         *)
(***************************************************************************)
C12_CandidatesInOrder ==
  /\ [](\A k \in 1..Len(app.attempted) :
          /\ app.attempted[k] = k
          /\ \A j \in 1..(k - 1) : j <= Len(app.outcomes) /\ ~app.outcomes[j])
  /\ [](app.loaded =>
          LET last == Len(app.attempted)
          IN  /\ Len(app.outcomes) = last /\ app.outcomes[last]
              /\ app.manifest = last /\ app.catalog = last)
  /\ [][app.loaded => app'.attempted = app.attempted]_vars

\* The third candidate loaded after two failures, and the user went on.
C12_Witness ==
  /\ app.loaded /\ Len(app.attempted) = 3 /\ app.manifest = 3 /\ app.catalog = 3
  /\ app.view = "detail"

(***************************************************************************)
(* C13: when every candidate has failed, loading is false, the error       *)
(* message is set, and nothing that reads manifest or catalog data is on   *)
(* screen or can be brought there by a user action.                        *)
(***************************************************************************)
AllFailed ==
  /\ app.pc = "settled" /\ ~app.loaded
  /\ Len(app.outcomes) = NumPaths /\ \A k \in 1..NumPaths : ~app.outcomes[k]

\* The parts of the page that read manifest.nodes.
ReadsDocuments ==
  DropdownShown(app) \/ BodyShown \/ GraphViewShown \/ app.breadcrumb # <<>>

C13_NoPartialRendering ==
  AllFailed => ~app.loading /\ app.error /\ ~ReadsDocuments /\ ~app.thrown

\* What does hold after the last failure.
C13_ErrorShown == AllFailed => ~app.loading /\ app.error /\ ~BodyShown

(***************************************************************************)
(* C17: from the lineage modal the action View Full DAG leads to a state   *)
(* in which the graph view is on screen with no focus node, and closing    *)
(* that view leads back; so the four view states are all reachable.        *)
(***************************************************************************)
FullDAG == GraphViewShown /\ GraphFocus = 0

C17_FullDagReachable ==
  [][event' = "viewFullDAG" => FullDAG']_vars

\* The other three view states.
C17_LineageModalReached == GraphViewShown /\ GraphFocus # 0 /\ app.view = "detail"

(***************************************************************************)
(* C14: for node records that lack any of name, schema, database, tags,    *)
(* description, config and depends_on, building and rendering the graph    *)
(* raises nothing; tags default to the empty list, description to the      *)
(* empty string, materialization to view, a missing dependency list gives  *)
(* no edge, and a record without a name is drawn with an empty label.      *)
(***************************************************************************)
Lacks(e, field) ==
  CASE field = "name" -> e.name = Undefined
    [] field = "schema" -> e.schema = Undefined
    [] field = "database" -> e.database = Undefined
    [] field = "description" -> e.description = Undefined
    [] OTHER -> field \in e.absent

C15_EmptyGraphPlaceholder ==
  rendered /\ graph.nodes = <<>> =>
    /\ layout.placeholder
    /\ layout.label = <<>> /\ layout.x = <<>> /\ graph.links = <<>>
    /\ layout.simulation = "none"

\* Every node of a manifest with a dependency is filtered out.
C15_Witness ==
  /\ rendered /\ graph.nodes = <<>> /\ layout.placeholder
  /\ parseLinks(manifest) # <<>>

(***************************************************************************)
(* C16: when the focus node has no incoming and no outgoing edge in the    *)
(* parsed graph, the graph view shows the no-data placeholder.             *)
(***************************************************************************)
IsolatedFocus ==
  /\ Focused /\ selectedModel \in ManifestIds(manifest)
  /\ \A l \in Range(parseLinks(manifest)) :
       l.source # selectedModel /\ l.target # selectedModel

C16_IsolatedFocusPlaceholder ==
  graph.built /\ IsolatedFocus => layout.placeholder

\* C16 as amended: an isolated focus node that passes the filters is drawn
\* alone, without edges; the placeholder is shown only when the filters
\* remove it.
C16_IsolatedFocusDrawnAlone ==
  graph.built /\ IsolatedFocus =>
    IF PassesFilters(EntryOf(selectedModel))
    THEN /\ GraphIds = {selectedModel} /\ Len(graph.nodes) = 1 /\ graph.links = <<>>
         /\ ~layout.placeholder /\ Len(layout.label) = 1
    ELSE graph.nodes = <<>> /\ layout.placeholder

\* The isolated focus is drawn alone although other nodes pass the filters.
C16_Witness ==
  /\ graph.built /\ IsolatedFocus
  /\ GraphIds = {selectedModel} /\ ~layout.placeholder
  /\ \E e \in Range(manifest) : e.id # selectedModel /\ PassesFilters(e)

(***************************************************************************)
(* C18: the close action of the details sidebar sets the selected node to  *)
(* none, and neither opening nor closing the sidebar makes the graph be    *)
(* rebuilt or laid out again: the drawn graph, the node positions, the     *)
(* viewport transform and the simulation stay as they are.  The container  *)
(* keeps its width here, so a resize notification after the first render   *)
(* is the consequence of the sidebar taking or giving back its width.      *)
(***************************************************************************)
C18_SidebarLeavesGraphAlone ==
  /\ [][event' = "closeDetails" => selectedNode' = Null]_vars
  /\ [][graph.built /\ event' \in {"nodeClick", "closeDetails", "resize"}
          => ~rendered' /\ graph' = graph /\ layout' = layout]_vars

\* The handlers themselves leave the canvas alone.
C18_HandlersLeaveGraphAlone ==
  [][event' \in {"nodeClick", "closeDetails"}
       => ~rendered' /\ graph' = graph /\ layout' = layout /\ width' = width]_vars

\* The sidebar was closed, and the render that followed put the dragged
\* node back and replaced the user's zoom.
C18_RerenderReached ==
  /\ event = "resize" /\ rendered /\ selectedNode = Null /\ dropped.stale

(***************************************************************************)
(* C19: a position pinned by dragging a node is still that node's position *)
(* after any later filter change in the session: the node, if still        *)
(* visible, is drawn at the pinned position.                               *)
(***************************************************************************)
IndexOf(nodes, id) == CHOOSE i \in 1..Len(nodes) : nodes[i].id = id

AtDroppedPlace ==
  /\ dropped.node # Null /\ ~dropped.stale
  /\ layout.x[IndexOf(graph.nodes, dropped.node)] = dropped.place

C19_PinSurvivesFilterChange ==
  [][AtDroppedPlace /\ event' = "toggleType" /\ dropped.node \in GraphIds'
       => layout'.x[IndexOf(graph'.nodes, dropped.node)] = dropped.place]_vars

\* C19 as amended: a position given by dragging lasts at most until the
\* next render; after a filter change that re-renders the graph every
\* visible node is a new record without a fixed position, placed by the
\* new simulation.
C19_RenderDropsPins ==
  [][event' = "toggleType" /\ rendered'
       => /\ layout'.dragging = 0
          /\ \A i \in 1..Len(layout'.x) : layout'.fx[i] = NoPin /\ layout'.x[i] = 0]_vars

\* A filter change re-rendered while the dragged node was held elsewhere.
C19_Witness ==
  /\ event = "toggleType" /\ rendered
  /\ dropped.stale /\ dropped.node \in GraphIds /\ dropped.place # 0
  /\ layout.x[IndexOf(graph.nodes, dropped.node)] = 0

(***************************************************************************)
(* C20: once a node has been dragged its position stays fixed: no tick of  *)
(* the simulation moves it in any later state of the same render, and the  *)
(* end of the drag gesture does not release it.                            *)
(***************************************************************************)
C20_PinnedUntilReleased ==
  /\ [][event' = "dragended" => layout'.fx = layout.fx]_vars
  /\ [][event' = "tick" /\ dropped.node # Null /\ ~dropped.stale
          => layout'.x[IndexOf(graph.nodes, dropped.node)] = dropped.place]_vars

\* C20 as amended: while a node is being dragged its position is fixed at
\* the pointer and no tick moves it; the end of the gesture releases it.
C20_PinnedWhileDragged ==
  /\ [](\A i \in 1..Len(layout.fx) : layout.fx[i] # NoPin => layout.dragging = i)
  /\ [][event' = "tick" /\ layout.dragging # 0
          => layout'.x[layout.dragging] = layout.fx[layout.dragging]]_vars
  /\ [][event' = "dragended"
          => \A i \in 1..Len(layout'.fx) : layout'.fx[i] = NoPin]_vars

\* After the gesture ended a tick moved the node away from where it was put.
C20_Witness ==
  /\ event = "tick" /\ layout.dragging = 0
  /\ dropped.node # Null /\ ~dropped.stale
  /\ layout.x[IndexOf(graph.nodes, dropped.node)] # dropped.place

(***************************************************************************)
(* C21: the viewport is fitted automatically only by the first render of   *)
(* a mounted graph and by the recenter action; a render caused by a later  *)
(* filter change leaves the viewport transform as it was before.           *)
(***************************************************************************)
C21_FilterChangeKeepsViewport ==
  [][graph.built /\ ~layout.placeholder /\ event' = "toggleType"
       => layout'.transform = layout.transform]_vars

\* What the code does: every render that draws nodes ends with the fit.
C21_EveryRenderFits ==
  [][rendered' /\ graph'.nodes # <<>> => layout'.transform = "fit"]_vars

\* The user had zoomed; a filter change replaced the transform by the fit.
C21_UserZoomLost ==
  /\ event = "toggleType" /\ rendered /\ layout.transform = "fit"
  /\ graph.nodes # <<>> /\ layout.earlier

(***************************************************************************)
(* C22: after each rebuild the simulation of the previous render is        *)
(* discarded: at most one simulation is ticking at any time.               *)
(***************************************************************************)
Ticking ==
  (IF layout.simulation = "running" THEN 1 ELSE 0) + (IF layout.earlier THEN 1 ELSE 0)

C22_OneSimulationTicking == Ticking <= 1

\* Ticks of an earlier simulation leave the current scene and viewport alone.
C22_EarlierTicksAreInert ==
  [][event' = "earlierTick"
       => /\ graph' = graph
          /\ [layout' EXCEPT !.earlier = layout.earlier] = layout]_vars

(***************************************************************************)
(* C26: after any sequence of renders the handles window.graphZoom,        *)
(* window.graphSvg and window.graphG refer to the scene of the most recent *)
(* render, so that the recenter action never measures a scene group that   *)
(* has been removed from the canvas.                                       *)
(***************************************************************************)
C26_HandlesAreCurrent ==
  /\ graph.built => layout.handles = (IF layout.placeholder THEN "none" ELSE "current")
  /\ event = "recenter" => layout.handles = "current"

\* The handles are current whenever nodes are on the canvas.
C26_HandlesCurrentWhileDrawn ==
  graph.built /\ ~layout.placeholder => layout.handles = "current"

(***************************************************************************)
(* C23: for a selected node with n columns in its manifest record the      *)
(* detail sidebar lists all n columns, for every n.                        *)
(***************************************************************************)
RecordColumns ==
  IF "columns" \in EntryOf(selectedNode).absent THEN <<>> ELSE EntryOf(selectedNode).columns

C23_SidebarListsAllColumns ==
  selectedNode # Null => Len(sidebarRows) = Len(RecordColumns)

\* C23 as amended: the sidebar lists the first five columns of the record
\* of the selected node in the order of the record, all of them when there
\* are fewer, and shows a note that there are more when it lists five.
C23_SidebarListsFirstFive ==
  selectedNode # Null =>
    /\ \A i \in 1..Len(RecordColumns) :
         i <= 5 <=> (i \in 1..Len(sidebarRows) /\ sidebarRows[i] = RecordColumns[i])
    /\ Len(sidebarRows) <= Len(RecordColumns)
    /\ sidebarMoreNote <=> Len(RecordColumns) >= 5

\* A node with more than five columns is selected.
C23_Witness ==
  /\ selectedNode # Null /\ Len(RecordColumns) > 5
  /\ Len(sidebarRows) = 5 /\ sidebarMoreNote

(***************************************************************************)
(* C25: in focus mode, whenever the visible node set is not empty it       *)
(* contains the focus node: a filter never removes the focus node from its *)
(* own lineage view.                                                       *)
(***************************************************************************)
C25_FocusAlwaysVisible ==
  graph.built /\ Focused /\ GraphIds # {} => selectedModel \in GraphIds

\* C25 as amended: the type, schema and database filters apply to the focus
\* node as to any other node.  The focus node is visible exactly when it is
\* a key of the manifest and passes the filters; the nodes of its lineage
\* that pass the filters are visible whether or not it is.
C25_FocusFilteredLikeAnyNode ==
  graph.built /\ Focused =>
    LET known == selectedModel \in ManifestIds(manifest)
        lineage == IF known THEN Lineage(selectedModel) ELSE {}
        visible == GraphIds
    IN  /\ selectedModel \in visible <=> (known /\ PassesFilters(EntryOf(selectedModel)))
        /\ \A e \in Range(manifest) :
             e.id \in lineage => (e.id \in visible <=> PassesFilters(e))

\* Part of the lineage is drawn while the focus node is filtered out.
C25_Witness ==
  /\ graph.built /\ Focused /\ selectedModel \in ManifestIds(manifest)
  /\ GraphIds # {} /\ selectedModel \notin GraphIds
  /\ GraphIds \subseteq Lineage(selectedModel)

NoDuplicates(list) == Cardinality(Range(list)) = Len(list)

\* list is the beginning of whole.
IsPrefix(list, whole) == Len(list) <= Len(whole) /\ list = SubSeq(whole, 1, Len(list))

ViewEvents == {"modelClick", "recentClick", "onModelClick"}

(***************************************************************************)
(* C24: after any sequence of model views and favorite toggles the         *)
(* recently-viewed list and the favorites list, in memory and as stored,   *)
(* each hold at most 10 ids.                                               *)
(***************************************************************************)
C24_BothListsBounded ==
  /\ Len(app.recentModels) <= 10 /\ Len(app.savedRecents) <= 10
  /\ Len(app.favoriteModels) <= 10 /\ Len(app.savedFavorites) <= 10

\* C24 as amended: the recently-viewed list holds at most 10 ids, in memory
\* and as stored.  The favorites list has no bound: it holds every id that
\* was made a favorite and not removed again, each once.
C24_RecentsBounded ==
  /\ [](Len(app.recentModels) <= 10 /\ Len(app.savedRecents) <= 10)
  /\ [](NoDuplicates(app.favoriteModels))
  /\ [][event' = "toggleFavorite" =>
          /\ Range(app'.favoriteModels) \in
               {Range(app.favoriteModels) \cup {app.selectedNode},
                Range(app.favoriteModels) \ {app.selectedNode}}
          /\ Range(app'.favoriteModels) # Range(app.favoriteModels)
          /\ app'.savedFavorites = app'.favoriteModels]_vars

\* A view cut a full recents list while the favorites list had grown past
\* ten ids.
C24_Witness ==
  /\ event \in ViewEvents
  /\ Len(app.recentModels) = 10 /\ app.recentModels[1] \in Models
  /\ app.recentModels[10] \notin Models
  /\ Len(app.favoriteModels) > 10

(***************************************************************************)
(* C27: the candidate locations are attempted whatever local storage       *)
(* holds: a malformed saved recents or favorites value neither puts the    *)
(* application into the error state nor keeps a loadable manifest from     *)
(* being loaded.                                                           *)
(***************************************************************************)
C27_StorageNeverBlocksLoading ==
  /\ app.pc # "created" => app.attempted # <<>>
  /\ app.error => Len(app.attempted) = NumPaths

\* Without a malformed value the error state means that every candidate failed.
C27_ErrorOnlyAfterAllCandidates ==
  app.error /\ app.recentsKey # "corrupt" /\ app.favoritesKey # "corrupt"
    => Len(app.attempted) = NumPaths

(***************************************************************************)
(* C28: after any sequence of showModelDetail calls the recently-viewed    *)
(* list holds no id twice, its first element is the model viewed last, the *)
(* other elements keep the order they had, and the value stored under the  *)
(* recents key equals the list in memory.                                  *)
(***************************************************************************)
C28_RecentsOrdered ==
  /\ [](NoDuplicates(app.recentModels))
  /\ [][event' \in ViewEvents =>
          LET viewed == app'.selectedNode
              Other(id) == id # viewed
          IN  /\ app'.recentModels[1] = viewed
              /\ IsPrefix(Tail(app'.recentModels), SelectSeq(app.recentModels, Other))
              /\ Len(app'.recentModels) >= 
                   (IF Len(SelectSeq(app.recentModels, Other)) < 9
                    THEN 1 + Len(SelectSeq(app.recentModels, Other)) ELSE 10)
              /\ app'.recentsKey = "list"
              /\ app'.savedRecents = app'.recentModels]_vars

\* Two models were viewed in turn on top of a full list.
C28_Witness ==
  /\ event \in ViewEvents
  /\ Len(app.recentModels) = 10
  /\ app.recentModels[1] = 1 /\ app.recentModels[2] = 2
  /\ app.savedRecents = app.recentModels

(***************************************************************************)
(* C29: a click on breadcrumb entry i of a model completes without an      *)
(* exception and leaves the application in the detail view of that model   *)
(* with the breadcrumb cut to the entries 0..i; a click on Home leaves it  *)
(* in the overview with no selected node and an empty breadcrumb.          *)
(***************************************************************************)
C29_BreadcrumbNavigates ==
  [][event' = "navigateBreadcrumb" /\ ~app.uncaught =>
       /\ ~app'.uncaught
       /\ \/ app'.view = "overview" /\ app'.selectedNode = 0 /\ app'.breadcrumb = <<>>
          \/ /\ app'.view = "detail" /\ app'.breadcrumb # <<>>
             /\ IsPrefix(app'.breadcrumb, app.breadcrumb)
             /\ app'.selectedNode = app'.breadcrumb[Len(app'.breadcrumb)]]_vars

\* The Home crumb does what is claimed.
C29_HomeNavigates ==
  [][event' = "navigateBreadcrumb" /\ app'.breadcrumb = <<>>
       => /\ app'.uncaught = app.uncaught
          /\ app'.view = "overview" /\ app'.selectedNode = 0]_vars

(***************************************************************************)
(* C30: in every state reachable by user actions after a successful load,  *)
(* showLineage is true if and only if lineageModel is not null, and view   *)
(* is detail only while selectedNode is not null.                          *)
(***************************************************************************)
C30_ViewsHaveTheirModel ==
  app.loaded =>
    /\ app.showLineage <=> app.lineageModel # 0
    /\ app.view = "detail" => app.selectedNode # 0

\* A click on a model of the graph closed the modal and opened the detail
\* view of that model.
C30_Witness ==
  /\ app.loaded /\ event = "onModelClick"
  /\ app.view = "detail" /\ app.selectedNode # 0
  /\ ~app.showLineage /\ app.lineageModel = 0

=============================================================================
